---- MODULE Spec2Model ----
(***************************************************************************)
(* Model of syn_util: queries over the meta tree of syn attributes         *)
(* (contains_attribute, get_attribute_value, get_attribute_map) and the    *)
(* literal coercion trait FromLit.                                         *)
(*                                                                         *)
(* Identifiers, separators and map keys are strings; a literal is a record *)
(* with its kind and its token text; a Meta is a record with the variant   *)
(* in `kind`.  Every query is a pure function of its arguments: the state  *)
(* holds the arguments of one call, the operation called and its result.   *)
(***************************************************************************)
EXTENDS Integers, Sequences, FiniteSets, TLC

VARIABLES attrs, id, separator, lit, op, result

vars == <<attrs, id, separator, lit, op, result>>

-----------------------------------------------------------------------------
(* Bounds of the explored inputs.                                          *)

\* Total number of tree nodes (attributes, nested metas and nested literals)
\* in an attribute slice.
MaxNodes == 3

\* Most attributes in a slice.
MaxAttrs == 2

\* Longest query path.
MaxPathLen == 3

\* Identifiers used in attributes and in query paths.
Idents == {"a", "b"}

\* Identifiers of the attributes handed to get_attribute_map: with the
\* empty separator the paths a/b and ab flatten to the same key.
MapIdents == {"a", "b", "ab"}

\* Separators handed to get_attribute_map.
Separators == {".", ""}

-----------------------------------------------------------------------------
(* syn data: Lit, Meta, NestedMeta, Attribute.                             *)

LitStr(s) == [kind |-> "Str", value |-> s]

LitBool(b) == [kind |-> "Bool", value |-> b]

\* An integer literal holds its base-10 digits (arbitrary precision) and its
\* suffix.
LitInt(ds, sfx) == [kind |-> "Int", digits |-> ds, suffix |-> sfx]

\* A float literal holds the digits before and after the decimal point.
LitFloat(ip, fp) == [kind |-> "Float", int |-> ip, frac |-> fp]

LitChar(c) == [kind |-> "Char", value |-> c]

LitByteStr(s) == [kind |-> "ByteStr", value |-> s]

MetaWord(ident) == [kind |-> "Word", ident |-> ident]

MetaNameValue(ident, l) == [kind |-> "NameValue", ident |-> ident, lit |-> l]

MetaList(ident, nested) == [kind |-> "List", ident |-> ident, nested |-> nested]

NestedMetaMeta(m) == [kind |-> "Meta", meta |-> m]

NestedMetaLiteral(l) == [kind |-> "Literal", lit |-> l]

\* Option::None / Option::Some
None == [some |-> FALSE]

Some(v) == [some |-> TRUE, value |-> v]

\* An attribute: its style and what interpret_meta() yields for its tokens
\* (None when the tokens are no meta item).
Attribute(style, meta) == [style |-> style, meta |-> meta]

interpret_meta(attr) == attr.meta

-----------------------------------------------------------------------------
(* contains_attribute                                                      *)

Tail1(s) == SubSeq(s, 2, Len(s))

RECURSIVE contains_attribute_impl(_, _)

\* contains_attribute_impl without the `id.len() == 1` test of the Word arm.
contains_attribute_impl_NoLenCheck(meta, path) ==
    IF path = <<>> THEN FALSE
    ELSE CASE meta.kind = "Word" -> meta.ident = path[1]
           [] meta.kind = "List" /\ meta.ident = path[1] ->
                \E i \in 1..Len(meta.nested) :
                    /\ meta.nested[i].kind = "Meta"
                    /\ contains_attribute_impl(meta.nested[i].meta, Tail1(path))
           [] OTHER -> FALSE

contains_attribute_impl(meta, path) ==
    IF path = <<>> THEN FALSE
    ELSE CASE meta.kind = "Word" -> Len(path) = 1 /\ meta.ident = path[1]
           [] meta.kind = "List" /\ meta.ident = path[1] ->
                \E i \in 1..Len(meta.nested) :
                    /\ meta.nested[i].kind = "Meta"
                    /\ contains_attribute_impl(meta.nested[i].meta, Tail1(path))
           [] OTHER -> FALSE

contains_attribute(as, path) ==
    \E i \in 1..Len(as) :
        /\ as[i].style = "Outer"
        /\ interpret_meta(as[i]).some
        /\ contains_attribute_impl(interpret_meta(as[i]).value, path)

-----------------------------------------------------------------------------
(* get_attribute_value                                                     *)

\* The first Some in a sequence of options, None when there is none: the
\* early return of the `for` loops.
RECURSIVE FirstSome(_)
FirstSome(opts) ==
    IF opts = <<>> THEN None
    ELSE IF opts[1].some THEN opts[1] ELSE FirstSome(Tail1(opts))

RECURSIVE get_attribute_value_impl(_, _)

\* get_attribute_value_impl without the `id.is_empty()` early return: the
\* empty path matches a name-value entry.
get_attribute_value_impl_NoEmptyCheck(meta, path) ==
    CASE meta.kind = "NameValue" /\ (path = <<>> \/ meta.ident = path[1]) -> Some(meta.lit)
      [] meta.kind = "List" /\ path # <<>> /\ meta.ident = path[1] ->
           FirstSome([i \in 1..Len(meta.nested) |->
               IF meta.nested[i].kind = "Meta"
               THEN get_attribute_value_impl(meta.nested[i].meta, Tail1(path))
               ELSE None])
      [] OTHER -> None

get_attribute_value_impl(meta, path) ==
    IF path = <<>> THEN None
    ELSE CASE meta.kind = "NameValue" /\ meta.ident = path[1] -> Some(meta.lit)
           [] meta.kind = "List" /\ meta.ident = path[1] ->
                FirstSome([i \in 1..Len(meta.nested) |->
                    IF meta.nested[i].kind = "Meta"
                    THEN get_attribute_value_impl(meta.nested[i].meta, Tail1(path))
                    ELSE None])
           [] OTHER -> None

get_attribute_value(as, path) ==
    FirstSome([i \in 1..Len(as) |->
        IF as[i].style = "Outer" /\ interpret_meta(as[i]).some
        THEN get_attribute_value_impl(interpret_meta(as[i]).value, path)
        ELSE None])

-----------------------------------------------------------------------------
(* get_attribute_map                                                       *)

\* The map under construction: `map` is the HashMap (a function from keys
\* to sequences of literals), `panic` records a failed assert!.
EmptyMap == [k \in {} |-> <<>>]

MapState(m, p) == [map |-> m, panic |-> p]

Insert(m, key, value) ==
    [k \in DOMAIN m \cup {key} |-> IF k = key THEN value ELSE m[k]]

\* The key built without the `prefix.is_empty()` test.
Key_AlwaysSeparator(prefix, sep, ident) == prefix \o sep \o ident

Key(prefix, sep, ident) ==
    IF prefix = "" THEN ident ELSE prefix \o sep \o ident

RECURSIVE get_attribute_map_impl(_, _, _, _)
RECURSIVE MapNested(_, _, _, _, _)

\* The body of the loop over meta_list.nested, from element i on.
MapNested(st, nested, i, key, sep) ==
    IF i > Len(nested) \/ st.panic THEN st
    ELSE MapNested(IF nested[i].kind = "Meta"
                   THEN get_attribute_map_impl(st, nested[i].meta, key, sep)
                   ELSE st,
                   nested, i + 1, key, sep)

\* get_attribute_map_impl without the assert! of the NameValue arm: a value
\* is pushed onto a marker's empty list.
get_attribute_map_impl_NoConflictAssert(st, meta, prefix, sep) ==
    IF st.panic THEN st
    ELSE LET key == Key(prefix, sep, meta.ident) IN
         CASE meta.kind = "Word" ->
                IF key \in DOMAIN st.map
                THEN MapState(st.map, TRUE)
                ELSE MapState(Insert(st.map, key, <<>>), FALSE)
           [] meta.kind = "NameValue" ->
                IF key \in DOMAIN st.map
                THEN MapState(Insert(st.map, key, Append(st.map[key], meta.lit)), FALSE)
                ELSE MapState(Insert(st.map, key, <<meta.lit>>), FALSE)
           [] meta.kind = "List" ->
                MapNested(st, meta.nested, 1, key, sep)

\* get_attribute_map_impl without the assert! of the Word arm: a repeated
\* marker is inserted again.
get_attribute_map_impl_NoDuplicateAssert(st, meta, prefix, sep) ==
    IF st.panic THEN st
    ELSE LET key == Key(prefix, sep, meta.ident) IN
         CASE meta.kind = "Word" ->
                IF key \in DOMAIN st.map /\ st.map[key] # <<>>
                THEN MapState(st.map, TRUE)
                ELSE MapState(Insert(st.map, key, <<>>), FALSE)
           [] meta.kind = "NameValue" ->
                IF key \in DOMAIN st.map
                THEN IF st.map[key] = <<>>
                     THEN MapState(st.map, TRUE)
                     ELSE MapState(Insert(st.map, key, Append(st.map[key], meta.lit)), FALSE)
                ELSE MapState(Insert(st.map, key, <<meta.lit>>), FALSE)
           [] meta.kind = "List" ->
                MapNested(st, meta.nested, 1, key, sep)

get_attribute_map_impl(st, meta, prefix, sep) ==
    IF st.panic THEN st
    ELSE LET key == Key(prefix, sep, meta.ident) IN
         CASE meta.kind = "Word" ->
                IF key \in DOMAIN st.map
                THEN MapState(st.map, TRUE)
                ELSE MapState(Insert(st.map, key, <<>>), FALSE)
           [] meta.kind = "NameValue" ->
                IF key \in DOMAIN st.map
                THEN IF st.map[key] = <<>>
                     THEN MapState(st.map, TRUE)
                     ELSE MapState(Insert(st.map, key, Append(st.map[key], meta.lit)), FALSE)
                ELSE MapState(Insert(st.map, key, <<meta.lit>>), FALSE)
           [] meta.kind = "List" ->
                MapNested(st, meta.nested, 1, key, sep)

RECURSIVE MapAttrs(_, _, _, _)
MapAttrs(st, as, i, sep) ==
    IF i > Len(as) \/ st.panic THEN st
    ELSE MapAttrs(IF as[i].style = "Outer" /\ interpret_meta(as[i]).some
                  THEN get_attribute_map_impl(st, interpret_meta(as[i]).value, "", sep)
                  ELSE st,
                  as, i + 1, sep)

get_attribute_map(as, sep) == MapAttrs(MapState(EmptyMap, FALSE), as, 1, sep)

-----------------------------------------------------------------------------
(* FromLit (lit_cast.rs)                                                   *)

\* Result::Ok / Result::Err(CastError)
Ok(v) == [ok |-> TRUE, value |-> v]

CastError == [ok |-> FALSE]

\* A u64 as four 16-bit limbs, least significant first.
LimbBase == 65536

U64Zero == <<0, 0, 0, 0>>

\* u64::checked_mul(10) followed by u64::checked_add(d), limb by limb.
\* The carry out of the top limb is the overflow.
MulAdd(limbs, d) ==
    LET t1 == limbs[1] * 10 + d
        t2 == limbs[2] * 10 + (t1 \div LimbBase)
        t3 == limbs[3] * 10 + (t2 \div LimbBase)
        t4 == limbs[4] * 10 + (t3 \div LimbBase)
    IN  [overflow |-> t4 \div LimbBase > 0,
         value |-> <<t1 % LimbBase, t2 % LimbBase, t3 % LimbBase, t4 % LimbBase>>]

\* str::parse::<u64> on the digits of an integer literal: a left-to-right
\* accumulation that fails on overflow.
RECURSIVE ParseU64(_, _, _)
ParseU64(digits, i, acc) ==
    IF i > Len(digits) THEN Ok(acc)
    ELSE LET step == MulAdd(acc, digits[i]) IN
         IF step.overflow THEN CastError ELSE ParseU64(digits, i + 1, step.value)

\* LitInt::base10_parse::<u64>().map_err(|_| CastError): the suffix is not
\* part of the digits.
base10_parse_u64(l) == ParseU64(l.digits, 1, U64Zero)

RECURSIVE StripLeadingZeros(_)
StripLeadingZeros(ds) ==
    IF Len(ds) > 1 /\ ds[1] = 0 THEN StripLeadingZeros(Tail1(ds)) ELSE ds

RECURSIVE StripTrailingZeros(_)
StripTrailingZeros(ds) ==
    IF Len(ds) > 1 /\ ds[Len(ds)] = 0
    THEN StripTrailingZeros(SubSeq(ds, 1, Len(ds) - 1)) ELSE ds

\* LitFloat::base10_parse::<f64>(): the number the digits denote (leading
\* zeros of the integer part and trailing zeros of the fraction carry no
\* value); str::parse::<f64> accepts every decimal float literal.
base10_parse_f64(l) ==
    Ok([int |-> StripLeadingZeros(l.int), frac |-> StripTrailingZeros(l.frac)])

from_lit_Lit(l) == Ok(l)

\* from_lit for f64 that also takes an integer literal.
from_lit_f64_IntAccepted(l) ==
    CASE l.kind = "Float" -> base10_parse_f64(l)
      [] l.kind = "Int" -> Ok([int |-> StripLeadingZeros(l.digits), frac |-> <<0>>])
      [] OTHER -> CastError

from_lit_u64(l) ==
    CASE l.kind = "Int" -> base10_parse_u64(l)
      [] OTHER -> CastError

from_lit_f64(l) ==
    CASE l.kind = "Float" -> base10_parse_f64(l)
      [] OTHER -> CastError

from_lit_bool(l) ==
    CASE l.kind = "Bool" -> Ok(l.value)
      [] OTHER -> CastError

from_lit_String(l) ==
    CASE l.kind = "Str" -> Ok(l.value)
      [] OTHER -> CastError

-----------------------------------------------------------------------------
(* Inputs: every attribute slice with at most MaxNodes nodes and MaxAttrs  *)
(* attributes, over a set of identifiers.                                  *)

TreeLits == {LitStr("hi"), LitStr("bye")}

LeafMetas(ids) ==
    {MetaWord(i) : i \in ids}
    \cup {MetaNameValue(i, l) : i \in ids, l \in TreeLits}
    \cup {MetaList(i, <<>>) : i \in ids}

RECURSIVE MetasOfSize(_, _)
RECURSIVE NestedSeqsOfSize(_, _)

NestedOfSize(n, ids) ==
    {NestedMetaMeta(m) : m \in MetasOfSize(n, ids)}
    \cup (IF n = 1 THEN {NestedMetaLiteral(l) : l \in TreeLits} ELSE {})

NestedSeqsOfSize(n, ids) ==
    IF n = 0 THEN {<<>>}
    ELSE UNION {{<<x>> \o rest : x \in NestedOfSize(k, ids),
                                 rest \in NestedSeqsOfSize(n - k, ids)} :
                k \in 1..n}

MetasOfSize(n, ids) ==
    IF n = 1 THEN LeafMetas(ids)
    ELSE {MetaList(i, ns) : i \in ids, ns \in NestedSeqsOfSize(n - 1, ids) \ {<<>>}}

AttrsOfSize(n, ids) ==
    {Attribute(s, Some(m)) : s \in {"Outer", "Inner"}, m \in MetasOfSize(n, ids)}
    \cup (IF n = 1 THEN {Attribute(s, None) : s \in {"Outer", "Inner"}} ELSE {})

\* attrs is a slice that extends `prefix` by attributes of at most n nodes
\* in total, MaxAttrs attributes at most.
RECURSIVE PickSlice(_, _, _)
PickSlice(prefix, n, ids) ==
    \/ attrs = prefix
    \/ /\ Len(prefix) < MaxAttrs
       /\ \E k \in 1..n : \E x \in AttrsOfSize(k, ids) :
            PickSlice(Append(prefix, x), n - k, ids)

Paths == UNION {[1..n -> Idents] : n \in 0..MaxPathLen}

\* The literals handed to from_lit.
U64MaxDigits == <<1, 8, 4, 4, 6, 7, 4, 4, 0, 7, 3, 7, 0, 9, 5, 5, 1, 6, 1, 5>>

IntDigits ==
    {<<0>>, <<1, 2>>, <<0, 0, 7>>,
     U64MaxDigits,
     <<0>> \o U64MaxDigits,
     SubSeq(U64MaxDigits, 1, 19) \o <<6>>,
     <<1, 8, 4, 4, 6, 7, 4, 4, 0, 7, 3, 7, 0, 9, 5, 5, 1, 7, 0, 0>>,
     <<9>> \o SubSeq(U64MaxDigits, 2, 20),
     U64MaxDigits \o <<0>>}

LitInputs ==
    {LitInt(ds, sfx) : ds \in IntDigits, sfx \in {"", "u8"}}
    \cup {LitFloat(<<1, 2>>, <<1>>), LitFloat(<<1, 2>>, <<1, 0>>),
          LitFloat(<<0>>, <<5>>), LitFloat(<<0, 1>>, <<0>>)}
    \cup {LitBool(TRUE), LitBool(FALSE)}
    \cup {LitStr("str"), LitStr(""), LitStr("12")}
    \cup {LitChar("c"), LitByteStr("str")}

-----------------------------------------------------------------------------
(* Calls of contains_attribute and get_attribute_value.                    *)

InitQuery ==
    /\ PickSlice(<<>>, MaxNodes, Idents)
    /\ id = <<>>
    /\ separator = ""
    /\ lit = LitStr("hi")
    /\ op = "init"
    /\ result = None

ContainsAttribute ==
    /\ op = "init"
    /\ \E path \in Paths :
        /\ id' = path
        /\ result' = contains_attribute(attrs, path)
    /\ op' = "contains_attribute"
    /\ UNCHANGED <<attrs, separator, lit>>

GetAttributeValue ==
    /\ op = "init"
    /\ \E path \in Paths :
        /\ id' = path
        /\ result' = get_attribute_value(attrs, path)
    /\ op' = "get_attribute_value"
    /\ UNCHANGED <<attrs, separator, lit>>

NextQuery == ContainsAttribute \/ GetAttributeValue

SpecQuery == InitQuery /\ [][NextQuery]_vars

-----------------------------------------------------------------------------
(* Calls of get_attribute_map.                                             *)

InitMap ==
    /\ PickSlice(<<>>, MaxNodes, MapIdents)
    /\ id = <<>>
    /\ separator = ""
    /\ lit = LitStr("hi")
    /\ op = "init"
    /\ result = None

GetAttributeMap ==
    /\ op = "init"
    /\ \E sep \in Separators :
        /\ separator' = sep
        /\ result' = get_attribute_map(attrs, sep)
    /\ op' = "get_attribute_map"
    /\ UNCHANGED <<attrs, id, lit>>

NextMap == GetAttributeMap

SpecMap == InitMap /\ [][NextMap]_vars

-----------------------------------------------------------------------------
(* Calls of from_lit, one action per implementation of FromLit.            *)

InitLit ==
    /\ attrs = <<>>
    /\ id = <<>>
    /\ separator = ""
    /\ lit \in LitInputs
    /\ op = "init"
    /\ result = None

FromLitLit ==
    /\ op = "init"
    /\ op' = "from_lit_Lit"
    /\ result' = from_lit_Lit(lit)
    /\ UNCHANGED <<attrs, id, separator, lit>>

FromLitU64 ==
    /\ op = "init"
    /\ op' = "from_lit_u64"
    /\ result' = from_lit_u64(lit)
    /\ UNCHANGED <<attrs, id, separator, lit>>

FromLitF64 ==
    /\ op = "init"
    /\ op' = "from_lit_f64"
    /\ result' = from_lit_f64(lit)
    /\ UNCHANGED <<attrs, id, separator, lit>>

FromLitBool ==
    /\ op = "init"
    /\ op' = "from_lit_bool"
    /\ result' = from_lit_bool(lit)
    /\ UNCHANGED <<attrs, id, separator, lit>>

FromLitString ==
    /\ op = "init"
    /\ op' = "from_lit_String"
    /\ result' = from_lit_String(lit)
    /\ UNCHANGED <<attrs, id, separator, lit>>

NextLit == FromLitLit \/ FromLitU64 \/ FromLitF64 \/ FromLitBool \/ FromLitString

SpecLit == InitLit /\ [][NextLit]_vars

-----------------------------------------------------------------------------
(* The entries of a slice, for stating the properties: every node of the   *)
(* meta trees in declaration order (preorder), with the names from the     *)
(* attribute root down to it.                                              *)

Entry(kind, path, l) == [kind |-> kind, path |-> path, lit |-> l]

RECURSIVE Concat(_)
Concat(seqs) == IF seqs = <<>> THEN <<>> ELSE seqs[1] \o Concat(Tail1(seqs))

RECURSIVE EntriesOfMeta(_)
EntriesOfMeta(meta) ==
    CASE meta.kind = "Word" -> <<Entry("Word", <<meta.ident>>, None)>>
      [] meta.kind = "NameValue" -> <<Entry("NameValue", <<meta.ident>>, Some(meta.lit))>>
      [] meta.kind = "List" ->
           <<Entry("List", <<meta.ident>>, None)>>
           \o Concat([i \in 1..Len(meta.nested) |->
                  IF meta.nested[i].kind = "Meta"
                  THEN LET sub == EntriesOfMeta(meta.nested[i].meta) IN
                       [j \in 1..Len(sub) |->
                           Entry(sub[j].kind, <<meta.ident>> \o sub[j].path, sub[j].lit)]
                  ELSE <<>>])

\* The entries of the attributes whose style is in `styles`, each with the
\* index of its attribute.
Entries(as, styles) ==
    Concat([i \in 1..Len(as) |->
        IF as[i].style \in styles /\ as[i].meta.some
        THEN LET sub == EntriesOfMeta(as[i].meta.value) IN
             [j \in 1..Len(sub) |->
                 [kind |-> sub[j].kind, path |-> sub[j].path, lit |-> sub[j].lit, attr |-> i]]
        ELSE <<>>])

AllEntries(as) == Entries(as, {"Outer", "Inner"})

OuterEntries(as) == Entries(as, {"Outer"})

\* The names of a path joined by a separator.
RECURSIVE JoinPath(_, _)
JoinPath(path, sep) ==
    IF Len(path) = 1 THEN path[1] ELSE path[1] \o sep \o JoinPath(Tail1(path), sep)

MarkerAt(entries, path) ==
    \E i \in 1..Len(entries) : entries[i].kind = "Word" /\ entries[i].path = path

ValueIndexesAt(entries, path) ==
    {i \in 1..Len(entries) : entries[i].kind = "NameValue" /\ entries[i].path = path}

Min(S) == CHOOSE x \in S : \A y \in S : x <= y

\* The literal of the first name-value entry at a path, None without one.
FirstValueAt(entries, path) ==
    IF ValueIndexesAt(entries, path) = {} THEN None
    ELSE entries[Min(ValueIndexesAt(entries, path))].lit

\* The literals of the name-value entries with a flattened key, in order.
RECURSIVE LitsAt(_, _, _)
LitsAt(entries, key, sep) ==
    IF entries = <<>> THEN <<>>
    ELSE (IF entries[1].kind = "NameValue" /\ JoinPath(entries[1].path, sep) = key
          THEN <<entries[1].lit.value>> ELSE <<>>)
         \o LitsAt(Tail1(entries), key, sep)

KeysOf(entries, sep) ==
    {JoinPath(entries[i].path, sep) :
        i \in {j \in 1..Len(entries) : entries[j].kind \in {"Word", "NameValue"}}}

\* A flattened key occurs as a bare marker and as a name-value entry.
Conflict(entries, sep) ==
    \E i, j \in 1..Len(entries) :
        /\ entries[i].kind = "Word"
        /\ entries[j].kind = "NameValue"
        /\ JoinPath(entries[i].path, sep) = JoinPath(entries[j].path, sep)

\* A bare-marker path is declared twice.
DuplicateMarker(entries) ==
    \E i, j \in 1..Len(entries) :
        /\ i < j
        /\ entries[i].kind = "Word"
        /\ entries[j].kind = "Word"
        /\ entries[i].path = entries[j].path

\* Two bare markers flatten to the same key.
DuplicateMarkerKey(entries, sep) ==
    \E i, j \in 1..Len(entries) :
        /\ i < j
        /\ entries[i].kind = "Word"
        /\ entries[j].kind = "Word"
        /\ JoinPath(entries[i].path, sep) = JoinPath(entries[j].path, sep)

-----------------------------------------------------------------------------
(* Properties.                                                             *)

\* C1: get_attribute_value returns a literal only when a name-value entry
\* sits at exactly the query path (a path that stops at a list, runs past a
\* name-value entry or reorders the names yields None).
C1_ValueOnlyAtExactPath ==
    (op = "get_attribute_value" /\ result.some) =>
        \E i \in 1..Len(AllEntries(attrs)) :
            /\ AllEntries(attrs)[i].kind = "NameValue"
            /\ AllEntries(attrs)[i].path = id
            /\ AllEntries(attrs)[i].lit = result

\* C2 as stated: contains_attribute is true exactly when the path is
\* non-empty and a bare word sits at exactly that path in the meta tree of
\* some attribute of the slice.
C2_MarkerInAnyAttribute ==
    op = "contains_attribute" =>
        (result <=> (id # <<>> /\ MarkerAt(AllEntries(attrs), id)))

\* C2 amended: contains_attribute is true exactly when the path is non-empty
\* and a bare word sits at exactly that path in the meta tree of some
\* outer-style attribute of the slice.
C2_MarkerInOuterAttribute ==
    op = "contains_attribute" =>
        (result <=> (id # <<>> /\ MarkerAt(OuterEntries(attrs), id)))

\* A marker three levels deep is found.
C2_Witness ==
    /\ op = "contains_attribute"
    /\ Len(id) = 3
    /\ result = TRUE

\* C3: get_attribute_value returns the literal of the first name-value entry
\* at the query path, attributes in slice order and each tree depth-first,
\* left to right, and None when no entry lies at the path.  Only the
\* attributes the function reads (outer style) are counted.
C3_FirstValueInDeclarationOrder ==
    op = "get_attribute_value" =>
        result = FirstValueAt(OuterEntries(attrs), id)

\* C4 as stated: get_attribute_map panics whenever a flattened key occurs
\* as a bare marker and as a name-value entry in the attributes of the slice.
C4_ConflictInAnyAttributePanics ==
    (op = "get_attribute_map" /\ Conflict(AllEntries(attrs), separator)) =>
        result.panic

\* C4 amended: get_attribute_map panics whenever a flattened key occurs as
\* a bare marker and as a name-value entry in the outer-style attributes of
\* the slice, in either order, in one attribute or in two.
C4_ConflictInOuterAttributesPanics ==
    (op = "get_attribute_map" /\ Conflict(OuterEntries(attrs), separator)) =>
        result.panic

\* The valued entry comes first and the marker follows in another attribute.
C4_Witness ==
    /\ op = "get_attribute_map"
    /\ result.panic
    /\ LET es == OuterEntries(attrs) IN
       \E i, j \in 1..Len(es) :
           /\ i < j
           /\ es[i].kind = "NameValue"
           /\ es[j].kind = "Word"
           /\ es[i].attr # es[j].attr
           /\ JoinPath(es[i].path, separator) = JoinPath(es[j].path, separator)

\* The content of the map for a sequence of entries.
MapHolds(entries) ==
    /\ DOMAIN result.map = KeysOf(entries, separator)
    /\ \A k \in DOMAIN result.map : result.map[k] = LitsAt(entries, k, separator)
    /\ \A i \in 1..Len(entries) :
           entries[i].kind = "Word" =>
               result.map[JoinPath(entries[i].path, separator)] = <<>>

\* C5 as stated: a completed get_attribute_map has one key per flattened
\* path of a marker or name-value entry of the attributes of the slice
\* (names joined by the separator), a marker maps to the empty list and a
\* name-value key to all its literals in declaration order.
C5_MapOfAllAttributes ==
    (op = "get_attribute_map" /\ ~result.panic) => MapHolds(AllEntries(attrs))

\* C5 amended: the same, over the outer-style attributes of the slice.
C5_MapOfOuterAttributes ==
    (op = "get_attribute_map" /\ ~result.panic) => MapHolds(OuterEntries(attrs))

\* Two attributes give the same key the same literal: both are kept.
C5_Witness ==
    /\ op = "get_attribute_map"
    /\ ~result.panic
    /\ Len(attrs) = 2
    /\ \E k \in DOMAIN result.map :
           Len(result.map[k]) = 2 /\ result.map[k][1] = result.map[k][2]

\* Which kind of literal an implementation of from_lit takes.
KindTaken ==
    CASE op = "from_lit_u64" -> {"Int"}
      [] op = "from_lit_f64" -> {"Float"}
      [] op = "from_lit_bool" -> {"Bool"}
      [] op = "from_lit_String" -> {"Str"}
      [] op = "from_lit_Lit" -> {"Str", "ByteStr", "Char", "Int", "Float", "Bool"}

RECURSIVE DigitsLeq(_, _)
DigitsLeq(a, b) ==
    \/ a = <<>>
    \/ a[1] < b[1]
    \/ a[1] = b[1] /\ DigitsLeq(Tail1(a), Tail1(b))

\* The digits denote a number that is at most u64::MAX.
InU64Range(digits) ==
    LET ds == StripLeadingZeros(digits) IN
    \/ Len(ds) < Len(U64MaxDigits)
    \/ Len(ds) = Len(U64MaxDigits) /\ DigitsLeq(ds, U64MaxDigits)

\* C6 as stated: from_lit succeeds exactly when the kind of the literal
\* matches the requested type, and coercion to Lit returns the literal.
C6_SucceedsExactlyOnKind ==
    op # "init" =>
        /\ result.ok <=> lit.kind \in KindTaken
        /\ op = "from_lit_Lit" => result = Ok(lit)

\* C6 amended: from_lit yields CastError for every literal of another kind;
\* on a literal of the matching kind it succeeds, except that u64 yields
\* CastError for an integer literal above u64::MAX.  Coercion to Lit
\* returns the literal, to bool and String its value.
C6_SucceedsOnKindAndRange ==
    op # "init" =>
        /\ result.ok <=>
             /\ lit.kind \in KindTaken
             /\ op = "from_lit_u64" => InU64Range(lit.digits)
        /\ op = "from_lit_Lit" => result = Ok(lit)
        /\ (op \in {"from_lit_bool", "from_lit_String"} /\ result.ok) =>
               result = Ok(lit.value)

\* An integer literal above u64::MAX is refused by u64.
C6_Witness ==
    /\ op = "from_lit_u64"
    /\ lit.kind = "Int"
    /\ ~InU64Range(lit.digits)
    /\ result = CastError

\* C7: for the empty path contains_attribute is false and
\* get_attribute_value is None, whatever the slice holds.
C7_EmptyPathMatchesNothing ==
    /\ (op = "contains_attribute" /\ id = <<>>) => result = FALSE
    /\ (op = "get_attribute_value" /\ id = <<>>) => result = None

\* The empty path is looked up in a slice with a top-level name-value
\* attribute.
C7_Witness ==
    /\ op = "get_attribute_value"
    /\ id = <<>>
    /\ result = None
    /\ \E i \in 1..Len(attrs) :
           /\ attrs[i].style = "Outer"
           /\ attrs[i].meta.some
           /\ attrs[i].meta.value.kind = "NameValue"

\* C8 as stated: get_attribute_map panics when a bare-marker path is
\* declared twice in the attributes of the slice; without a marker that
\* repeats or meets a valued entry it does not panic, and repeated
\* name-value entries accumulate.
C8_DuplicateMarkerInAnyAttributePanics ==
    op = "get_attribute_map" =>
        /\ DuplicateMarker(AllEntries(attrs)) => result.panic
        /\ (~DuplicateMarkerKey(OuterEntries(attrs), separator)
            /\ ~Conflict(OuterEntries(attrs), separator)) =>
               /\ ~result.panic
               /\ \A k \in DOMAIN result.map :
                      result.map[k] = LitsAt(OuterEntries(attrs), k, separator)

\* C8 amended: get_attribute_map panics when a bare-marker path is declared
\* twice in the outer-style attributes of the slice; without a marker that
\* repeats or meets a valued entry it does not panic, and repeated
\* name-value entries accumulate.
C8_DuplicateMarkerInOuterAttributesPanics ==
    op = "get_attribute_map" =>
        /\ DuplicateMarker(OuterEntries(attrs)) => result.panic
        /\ (~DuplicateMarkerKey(OuterEntries(attrs), separator)
            /\ ~Conflict(OuterEntries(attrs), separator)) =>
               /\ ~result.panic
               /\ \A k \in DOMAIN result.map :
                      result.map[k] = LitsAt(OuterEntries(attrs), k, separator)

\* The same word twice inside one list, and no valued entry with its key.
C8_Witness ==
    /\ op = "get_attribute_map"
    /\ result.panic
    /\ Len(attrs) = 1
    /\ DuplicateMarker(OuterEntries(attrs))
    /\ ~Conflict(OuterEntries(attrs), separator)

====
